---- MODULE Spec2Model ----
(***************************************************************************)
(* Model of parse_rpt_file (rpt_to_excel.py): the fixed-width report       *)
(* parser.  Text is a sequence of one-character strings; offsets are the   *)
(* 0-based, half-open offsets of the Python code.                          *)
(***************************************************************************)
EXTENDS Integers, Sequences, FiniteSets, TLC

\* ------------------------------------------------------------------------
\* Text primitives (str methods and the character classes of re)
\* ------------------------------------------------------------------------

\* \s of re and the characters str.strip() removes, within the alphabet used
IsSpace(c) == c \in {" ", "\t", "\n"}

\* \d of re
IsDigit(c) == c \in {"0", "1", "2", "3", "4", "5", "6", "7", "8", "9"}

MinOf(S) == CHOOSE x \in S : \A y \in S : x <= y

MaxOf(S) == CHOOSE x \in S : \A y \in S : y <= x

Min2(a, b) == IF a <= b THEN a ELSE b

\* s[a:b] of Python for 0 <= a, 0 <= b (both clipped to len(s))
Slice(s, a, b) ==
    LET lo == Min2(a, Len(s))
        hi == Min2(b, Len(s))
    IN  IF lo >= hi THEN << >> ELSE SubSeq(s, lo + 1, hi)

\* str.strip()
Strip(s) ==
    LET idx == {i \in 1..Len(s) : ~IsSpace(s[i])}
    IN  IF idx = {} THEN << >> ELSE SubSeq(s, MinOf(idx), MaxOf(idx))

\* str.replace('\t', ' ')
ReplaceTabs(s) == [i \in 1..Len(s) |-> IF s[i] = "\t" THEN " " ELSE s[i]]

\* s.startswith(lit, p), p a 0-based offset
StartsWithAt(s, p, lit) ==
    /\ p + Len(lit) <= Len(s)
    /\ \A k \in 1..Len(lit) : s[p + k] = lit[k]

\* lit in s
Contains(s, lit) == \E p \in 0..Len(s) : StartsWithAt(s, p, lit)

\* the offset of the first character at or after p that is not whitespace,
\* len(s) when there is none (a greedy \s* or \s+ started at p stops there)
RECURSIVE SkipSpace(_, _)
SkipSpace(s, p) ==
    IF p < Len(s) /\ IsSpace(s[p + 1]) THEN SkipSpace(s, p + 1) ELSE p

\* the offset at which a greedy [-]+ started at p stops
RECURSIVE SkipDash(_, _)
SkipDash(s, p) ==
    IF p < Len(s) /\ s[p + 1] = "-" THEN SkipDash(s, p + 1) ELSE p

\* the offset at which a greedy \d+ started at p stops
RECURSIVE SkipDigits(_, _)
SkipDigits(s, p) ==
    IF p < Len(s) /\ IsDigit(s[p + 1]) THEN SkipDigits(s, p + 1) ELSE p

\* ^ under re.MULTILINE: the start of the text and after each newline
AtLineStart(s, p) == p = 0 \/ s[p] = "\n"

\* $ under re.MULTILINE: the end of the text and before each newline
AtLineEnd(s, e) == e = Len(s) \/ s[e + 1] = "\n"

NoMatch == [found |-> FALSE, start |-> 0, end |-> 0]

\* ------------------------------------------------------------------------
\* re.search(r'^\s*(\S+\s+)+$', content, re.MULTILINE)
\* ------------------------------------------------------------------------

\* The offsets at which a match started at p may end.  \s* runs to the first
\* token (at q); \s matches newlines too, so from q on any text is tokens
\* separated by whitespace, and a match can end after any whitespace
\* character that follows the first token and stands at a line end.
HeaderEnds(s, p) ==
    LET q == SkipSpace(s, p)
    IN  {e \in (q + 2)..Len(s) : IsSpace(s[e]) /\ AtLineEnd(s, e)}

\* Leftmost start; every quantifier is greedy, so the longest end is taken.
HeaderSearch(s) ==
    LET starts == {p \in 0..Len(s) : AtLineStart(s, p) /\ HeaderEnds(s, p) # {}}
    IN  IF starts = {} THEN NoMatch
        ELSE LET p == MinOf(starts)
             IN  [found |-> TRUE, start |-> p, end |-> MaxOf(HeaderEnds(s, p))]

\* ------------------------------------------------------------------------
\* re.search(r'^\s*([-]+\s+)+', content, re.MULTILINE)
\* ------------------------------------------------------------------------

\* The end of the repetition ([-]+\s+)+ entered at offset q: each iteration
\* takes a whole run of dashes and the whole whitespace after it; a run that
\* is followed by no whitespace ends the repetition before that run.
RECURSIVE DashIterations(_, _)
DashIterations(s, q) ==
    LET r == SkipDash(s, q)
    IN  IF r > q /\ r < Len(s) /\ IsSpace(s[r + 1])
        THEN DashIterations(s, SkipSpace(s, r))
        ELSE q

\* The end of a match started at p, or -1
DashEnd(s, p) ==
    LET q == SkipSpace(s, p)
        e == DashIterations(s, q)
    IN  IF e > q THEN e ELSE -1

DashSearch(s) ==
    LET starts == {p \in 0..Len(s) : AtLineStart(s, p) /\ DashEnd(s, p) # -1}
    IN  IF starts = {} THEN NoMatch
        ELSE LET p == MinOf(starts)
             IN  [found |-> TRUE, start |-> p, end |-> DashEnd(s, p)]

\* ------------------------------------------------------------------------
\* [(m.start(), m.end()) for m in re.finditer(r'([-]+)', dash_line)]
\* ------------------------------------------------------------------------
RECURSIVE DashRuns(_, _)
DashRuns(d, p) ==
    IF p >= Len(d) THEN << >>
    ELSE IF d[p + 1] = "-"
         THEN LET r == SkipDash(d, p) IN << <<p, r>> >> \o DashRuns(d, r)
         ELSE DashRuns(d, p + 1)

\* ------------------------------------------------------------------------
\* re.search(r'\(\d+\s+rows? affected\)', data_section)
\* ------------------------------------------------------------------------
RowLit == <<"r", "o", "w">>

AffectedLit == <<" ", "a", "f", "f", "e", "c", "t", "e", "d", ")">>

FooterAt(s, p) ==
    /\ p < Len(s)
    /\ s[p + 1] = "("
    /\ LET d == SkipDigits(s, p + 1)
           w == SkipSpace(s, d)
       IN  /\ d > p + 1
           /\ w > d
           /\ StartsWithAt(s, w, RowLit)
           /\ \/ StartsWithAt(s, w + 3, AffectedLit)
              \/ StartsWithAt(s, w + 3, <<"s">> \o AffectedLit)

\* the start of the first match, or -1
FooterSearch(s) ==
    LET starts == {p \in 0..Len(s) : FooterAt(s, p)}
    IN  IF starts = {} THEN -1 ELSE MinOf(starts)

\* ------------------------------------------------------------------------
\* Values
\* ------------------------------------------------------------------------

\* Python's None as a cell value
None == [none |-> TRUE, text |-> << >>]

\* a str cell value
Str(t) == [none |-> FALSE, text |-> t]

NullLit == <<"N", "U", "L", "L">>

CompletionLit ==
    <<"C", "o", "m", "p", "l", "e", "t", "i", "o", "n", " ", "t", "i", "m", "e", ":">>

ColumnLit == <<"C", "o", "l", "u", "m", "n">>

DigitChars == <<"0", "1", "2", "3", "4", "5", "6", "7", "8", "9">>

\* str(n) for n >= 0, as the f-string formats it
RECURSIVE IntToStr(_)
IntToStr(n) ==
    IF n < 10 THEN <<DigitChars[n + 1]>>
    ELSE IntToStr(n \div 10) \o <<DigitChars[(n % 10) + 1]>>

\* f"Column{i+1}", i the loop index of range(1, len(positions))
Placeholder(i) == ColumnLit \o IntToStr(i + 1)

\* NullToNone with a falsy test in place of the comparison: '' becomes None
NullToNone_EmptyToo(v) == IF v = NullLit \/ v = << >> THEN None ELSE Str(v)

\* if value == "NULL": value = None
NullToNone(v) == IF v = NullLit THEN None ELSE Str(v)

\* ------------------------------------------------------------------------
\* Column names (positions is a non-empty sequence of <<start, end>>)
\* ------------------------------------------------------------------------

\* column_names.append(header_line[:min(positions[0][1], len(header_line))].strip())
FirstName(h, pos) == Strip(Slice(h, 0, Min2(pos[1][2], Len(h))))

\* MiddleName slicing the header under the dash run of column i itself
MiddleName_UnderRun(h, pos, i) ==
    LET start == pos[i + 1][1]
        end   == pos[i + 1][2]
    IN  IF start < Len(h)
        THEN LET col_name == Strip(Slice(h, start, Min2(end, Len(h))))
             IN  IF col_name = << >> THEN Placeholder(i) ELSE col_name
        ELSE Placeholder(i)

\* the body of the loop for i in range(1, len(positions))
MiddleName(h, pos, i) ==
    LET start == pos[i][2]
        end   == pos[i + 1][1]
    IN  IF start < Len(h)
        THEN LET col_name == Strip(Slice(h, start, Min2(end, Len(h))))
             IN  IF col_name = << >> THEN Placeholder(i) ELSE col_name
        ELSE Placeholder(i)

\* the last column, when there is content after the last dash segment
LastName(h, pos) ==
    LET last_end == pos[Len(pos)][2]
    IN  IF Len(h) > last_end
        THEN LET last_col == Strip(Slice(h, last_end, Len(h)))
             IN  IF last_col # << >> THEN <<last_col>> ELSE << >>
        ELSE << >>

ColumnNames(h, pos) ==
    <<FirstName(h, pos)>>
        \o [i \in 1..(Len(pos) - 1) |-> MiddleName(h, pos, i)]
        \o LastName(h, pos)

\* ------------------------------------------------------------------------
\* Data rows
\* ------------------------------------------------------------------------

\* s.split('\n') from offset p on; every line keeps the offset in content
\* at which it starts (base is the offset of s[0] in content)
RECURSIVE SplitFrom(_, _, _)
SplitFrom(s, p, base) ==
    LET nls == {q \in p..(Len(s) - 1) : s[q + 1] = "\n"}
    IN  IF nls = {}
        THEN << [off |-> base + p, text |-> Slice(s, p, Len(s))] >>
        ELSE LET nl == MinOf(nls)
             IN  << [off |-> base + p, text |-> Slice(s, p, nl)] >>
                     \o SplitFrom(s, nl + 1, base)

\* data_section.strip().split('\n')
StripSplit(s, base) ==
    LET idx == {i \in 1..Len(s) : ~IsSpace(s[i])}
    IN  IF idx = {} THEN SplitFrom(<< >>, 0, base)
        ELSE SplitFrom(Strip(s), 0, base + MinOf(idx) - 1)

\* Skipped without the test for the "Completion time:" footer
Skipped_BlankOnly(line) == Strip(line) = << >>

\* if not line.strip() or "Completion time:" in line: continue
Skipped(line) == Strip(line) = << >> \/ Contains(line, CompletionLit)

\* the first column of a line (tabs already replaced)
FirstCell(line, pos) ==
    NullToNone(Strip(Slice(line, 0, Min2(pos[1][2], Len(line)))))

\* MiddleCell without the test start < len(line): the slice is then ''
MiddleCell_NoLengthCheck(line, pos, j) ==
    NullToNone(Strip(Slice(line, pos[j][2], pos[j + 1][1])))

\* the body of the loop for j in range(1, len(positions))
MiddleCell(line, pos, j) ==
    LET start == pos[j][2]
    IN  IF start < Len(line)
        THEN LET end   == pos[j + 1][1]
                 width == Min2(end - start, Len(line) - start)
             IN  NullToNone(Strip(Slice(line, start, start + width)))
        ELSE None

\* the last column, if it exists
LastCell(line, pos) ==
    LET last_end == pos[Len(pos)][2]
    IN  IF Len(line) > last_end
        THEN <<NullToNone(Strip(Slice(line, last_end, Len(line))))>>
        ELSE << >>

\* while len(row_data) < len(column_names): row_data.append(None)
PadRow(row, n) ==
    IF Len(row) < n
    THEN row \o [k \in 1..(n - Len(row)) |-> None]
    ELSE row

RowData(line, pos, n) ==
    PadRow(<<FirstCell(line, pos)>>
               \o [j \in 1..(Len(pos) - 1) |-> MiddleCell(line, pos, j)]
               \o LastCell(line, pos),
           n)

\* any(val is not None and val != "" for val in row_data)
HasData(row) == \E k \in 1..Len(row) : ~row[k].none /\ row[k].text # << >>

\* ------------------------------------------------------------------------
\* Input documents
\* ------------------------------------------------------------------------

\* the largest number of lines between the dash line and the footer
MaxDataLines == 2

NL == <<"\n">>

\* "ID NAME", "IDX NAME " and "A " (the last two end in a space)
HeaderLines ==
    { <<"I", "D", " ", "N", "A", "M", "E">>,
      <<"I", "D", "X", " ", "N", "A", "M", "E", " ">>,
      <<"A", " ">> }

\* "--<tab>---", "--      --" and "---- --- ------"
DashLines ==
    { <<"-", "-", "\t", "-", "-", "-">>,
      <<"-", "-", " ", " ", " ", " ", " ", " ", "-", "-">>,
      <<"-", "-", "-", "-", " ", "-", "-", "-", " ", "-", "-", "-", "-", "-", "-">> }

\* "7 NULL    NULL", "  Null    a<tab>b", "Completion time: 9", "    ab",
\* "NULL" and "ab"
DataLines ==
    { <<"7", " ", "N", "U", "L", "L", " ", " ", " ", " ", "N", "U", "L", "L">>,
      <<" ", " ", "N", "u", "l", "l", " ", " ", " ", " ", "a", "\t", "b">>,
      <<"C", "o", "m", "p", "l", "e", "t", "i", "o", "n", " ", "t", "i", "m", "e", ":", " ", "9">>,
      <<" ", " ", " ", " ", "a", "b">>,
      <<"N", "U", "L", "L">>,
      <<"a", "b">> }

\* nothing, "(2 rows affected)" followed by the line "9 zz", "(1 row affected)"
Footers ==
    { << >>,
      NL \o <<"(", "2", " ", "r", "o", "w", "s", " ", "a", "f", "f", "e", "c", "t", "e", "d", ")">>
         \o NL \o <<"9", " ", "z", "z">>,
      NL \o <<"(", "1", " ", "r", "o", "w", " ", "a", "f", "f", "e", "c", "t", "e", "d", ")">> }

RECURSIVE JoinLines(_)
JoinLines(ls) ==
    IF ls = << >> THEN << >> ELSE NL \o Head(ls) \o JoinLines(Tail(ls))

DataBlocks == UNION {[1..n -> DataLines] : n \in 0..MaxDataLines}

\* header, optional blank line, dash line, data lines, footer, optional
\* final newline
Document(h, blank, d, ls, f, final) ==
    h \o NL \o (IF blank THEN NL ELSE << >>) \o d \o JoinLines(ls) \o f
      \o (IF final THEN NL ELSE << >>)

\* the end-to-end scenario: ID/NAME/AMOUNT, two rows, a blank line, the footer
ExampleDoc ==
    <<"I", "D", " ", " ", " ", "N", "A", "M", "E", " ", " ", " ", " ", " ", "A", "M", "O", "U", "N", "T">>
    \o NL \o
    <<"-", "-", "-", "-", " ", "-", "-", "-", "-", "-", "-", "-", "-", " ", "-", "-", "-", "-", "-", "-">>
    \o NL \o
    <<"1", " ", " ", " ", " ", "A", "l", "i", "c", "e", " ", " ", " ", " ", "1", "0", "0", ".", "0", "0">>
    \o NL \o
    <<"2", " ", " ", " ", " ", "N", "U", "L", "L", " ", " ", " ", " ", " ", "5", "0", ".", "0", "0">>
    \o NL \o NL \o
    <<"(", "2", " ", "r", "o", "w", "s", " ", "a", "f", "f", "e", "c", "t", "e", "d", ")">>
    \o NL

\* a report with a whitespace-only line, an empty line, a "Completion time:"
\* line and a line with text under the second dash run only among its data
\* lines, and a data line after the footer
MixedDoc ==
    <<"I", "D", "X", " ", "N", "A", "M", "E", " ">>
    \o NL \o
    <<"-", "-", " ", " ", " ", " ", " ", " ", "-", "-">>
    \o NL \o
    <<"7", " ", "N", "U", "L", "L", " ", " ", " ", " ", "N", "U", "L", "L">>
    \o NL \o
    <<" ", "\t">>
    \o NL \o NL \o
    <<"C", "o", "m", "p", "l", "e", "t", "i", "o", "n", " ", "t", "i", "m", "e", ":", " ", "9">>
    \o NL \o
    <<" ", " ", " ", " ", " ", " ", " ", " ", "a", "b">>
    \o NL \o
    <<" ", " ", "N", "u", "l", "l", " ", " ", " ", " ", "n", "u", "l", "l">>
    \o NL \o
    <<"(", "2", " ", "r", "o", "w", "s", " ", "a", "f", "f", "e", "c", "t", "e", "d", ")">>
    \o NL \o
    <<"9", " ", "z", "z">>

\* the empty file, "ID NAME" (no line end), "ID NAME" and a newline (no dash
\* line), the example and the mixed report
OtherDocs ==
    { << >>,
      <<"I", "D", " ", "N", "A", "M", "E">>,
      <<"I", "D", " ", "N", "A", "M", "E", "\n">>,
      ExampleDoc,
      MixedDoc }

Documents ==
    { Document(h, blank, d, ls, f, final) :
        h \in HeaderLines, blank \in BOOLEAN, d \in DashLines,
        ls \in DataBlocks, f \in Footers, final \in BOOLEAN }
    \cup OtherDocs

\* ------------------------------------------------------------------------
\* State
\* ------------------------------------------------------------------------
VARIABLES
    content,        \* the text read from the file
    pc,             \* the statement parse_rpt_file is at
    header_line,
    dash_line,
    dash_end,       \* dash_line_match.end()
    positions,
    column_names,
    lines,          \* the lines the for loop has not visited yet
    data_rows,
    built,          \* history: every row_data built, with its line
    skipped,        \* history: the lines the loop passed over
    message,        \* the last failure printed
    result          \* what the call returned or raised

vars == <<content, pc, header_line, dash_line, dash_end, positions,
          column_names, lines, data_rows, built, skipped, message,
          result>>

Pending == [kind |-> "pending", columns |-> << >>, rows |-> << >>]

\* return None
ReturnNone == [kind |-> "None", columns |-> << >>, rows |-> << >>]

\* an exception leaving parse_rpt_file
Raised == [kind |-> "raise", columns |-> << >>, rows |-> << >>]

Table(cols, rows) == [kind |-> "table", columns |-> cols, rows |-> rows]

Init ==
    /\ content \in Documents
    /\ pc = "header"
    /\ header_line = << >>
    /\ dash_line = << >>
    /\ dash_end = 0
    /\ positions = << >>
    /\ column_names = << >>
    /\ lines = << >>
    /\ data_rows = << >>
    /\ built = << >>
    /\ skipped = << >>
    /\ message = ""
    /\ result = Pending

\* ------------------------------------------------------------------------
\* Steps of parse_rpt_file
\* ------------------------------------------------------------------------

\* header_match = re.search(...); header_line = header_match.group(0).strip()
FindHeader ==
    /\ pc = "header"
    /\ LET m == HeaderSearch(content)
       IN  IF ~m.found
           THEN /\ message' = "Could not find header row in the file."
                /\ result' = ReturnNone
                /\ pc' = "done"
                /\ UNCHANGED header_line
           ELSE /\ header_line' = Strip(Slice(content, m.start, m.end))
                /\ pc' = "dash"
                /\ UNCHANGED <<message, result>>
    /\ UNCHANGED <<content, dash_line, dash_end, positions, column_names,
                   lines, data_rows, built, skipped>>

\* FindDashLine without the test of dash_line_match: group(0) of None raises
FindDashLine_NoCheck ==
    /\ pc = "dash"
    /\ LET m == DashSearch(content)
       IN  IF ~m.found
           THEN /\ result' = Raised
                /\ pc' = "done"
                /\ UNCHANGED <<dash_line, dash_end, message>>
           ELSE /\ dash_line' = ReplaceTabs(Slice(content, m.start, m.end))
                /\ dash_end' = m.end
                /\ pc' = "positions"
                /\ UNCHANGED <<message, result>>
    /\ UNCHANGED <<content, header_line, positions, column_names, lines,
                   data_rows, built, skipped>>

\* dash_line_match = re.search(...); dash_line = group(0) with tabs replaced
FindDashLine ==
    /\ pc = "dash"
    /\ LET m == DashSearch(content)
       IN  IF ~m.found
           THEN /\ message' = "Could not find dash line below headers."
                /\ result' = ReturnNone
                /\ pc' = "done"
                /\ UNCHANGED <<dash_line, dash_end>>
           ELSE /\ dash_line' = ReplaceTabs(Slice(content, m.start, m.end))
                /\ dash_end' = m.end
                /\ pc' = "positions"
                /\ UNCHANGED <<message, result>>
    /\ UNCHANGED <<content, header_line, positions, column_names, lines,
                   data_rows, built, skipped>>

\* positions = [...]; if not positions: return None
FindPositions ==
    /\ pc = "positions"
    /\ positions' = DashRuns(dash_line, 0)
    /\ IF positions' = << >>
       THEN /\ message' = "Error: Could not find column separators in the dash line."
            /\ result' = ReturnNone
            /\ pc' = "done"
       ELSE /\ pc' = "names"
            /\ UNCHANGED <<message, result>>
    /\ UNCHANGED <<content, header_line, dash_line, dash_end, column_names,
                   lines, data_rows, built, skipped>>

\* header_line = header_line.replace('\t', ' '); column_names = [...]
ExtractColumnNames ==
    /\ pc = "names"
    /\ header_line' = ReplaceTabs(header_line)
    /\ column_names' = ColumnNames(header_line', positions)
    /\ pc' = "section"
    /\ UNCHANGED <<content, dash_line, dash_end, positions, lines, data_rows,
                   built, skipped, message, result>>

\* DataSection without the cut at the footer
DataSection_NoCut(text, from) == Slice(text, from, Len(text))

\* data_section = content[dash_line_match.end():], cut at the footer
DataSection(text, from) ==
    LET data_section == Slice(text, from, Len(text))
        end_match    == FooterSearch(data_section)
    IN  IF end_match # -1 THEN Slice(data_section, 0, end_match)
        ELSE data_section

\* data_section = ...; the list the for loop iterates over
FindDataSection ==
    /\ pc = "section"
    /\ lines' = StripSplit(DataSection(content, dash_end), dash_end)
    /\ pc' = "rows"
    /\ UNCHANGED <<content, header_line, dash_line, dash_end, positions,
                   column_names, data_rows, built, skipped, message, result>>

\* one iteration of for line in data_section.strip().split('\n')
ParseLine ==
    /\ pc = "rows"
    /\ lines # << >>
    /\ LET item == Head(lines)
           line == ReplaceTabs(item.text)
           row_data == RowData(line, positions, Len(column_names))
       IN  IF Skipped(item.text)
           THEN /\ skipped' = Append(skipped, item.text)
                /\ UNCHANGED <<data_rows, built>>
           ELSE /\ UNCHANGED skipped
                /\ built' = Append(built, [off |-> item.off, raw |-> item.text,
                                           line |-> line, row |-> row_data,
                                           kept |-> HasData(row_data)])
                /\ data_rows' = IF HasData(row_data)
                                THEN Append(data_rows, row_data)
                                ELSE data_rows
    /\ lines' = Tail(lines)
    /\ UNCHANGED <<content, pc, header_line, dash_line, dash_end, positions,
                   column_names, message, result>>

\* pd.DataFrame(data_rows, columns=column_names) raises ValueError when the
\* rows are wider than the column list
FrameFits(rows, cols) == \A k \in 1..Len(rows) : Len(rows[k]) = Len(cols)

\* df = pd.DataFrame(data_rows, columns=column_names); return df
CreateDataFrame ==
    /\ pc = "rows"
    /\ lines = << >>
    /\ result' = IF FrameFits(data_rows, column_names)
                 THEN Table(column_names, data_rows)
                 ELSE Raised
    /\ pc' = "done"
    /\ UNCHANGED <<content, header_line, dash_line, dash_end, positions,
                   column_names, lines, data_rows, built, skipped, message>>

Next ==
    \/ FindHeader
    \/ FindDashLine
    \/ FindPositions
    \/ ExtractColumnNames
    \/ FindDataSection
    \/ ParseLine
    \/ CreateDataFrame

Spec == Init /\ [][Next]_vars

\* ------------------------------------------------------------------------
\* Properties
\* ------------------------------------------------------------------------

\* the rows of the history that were added to data_rows, in order
RECURSIVE KeptRows(_)
KeptRows(b) ==
    IF b = << >> THEN << >>
    ELSE IF Head(b).kept THEN <<Head(b).row>> \o KeptRows(Tail(b))
         ELSE KeptRows(Tail(b))

\* the call has come to its end with a table
ReturnedTable == pc = "done" /\ result.kind = "table"

\* the lines of a text, as text
LinesOf(s) == LET ls == SplitFrom(s, 0, 0) IN [k \in 1..Len(ls) |-> ls[k].text]

\* a line made of one or more runs of dashes separated by whitespace
IsDashLine(t) ==
    /\ Strip(t) # << >>
    /\ \A i \in 1..Len(t) : t[i] = "-" \/ IsSpace(t[i])

\* the dash-separator lines of a text, first one first
DashLinesOf(s) == SelectSeq(LinesOf(s), IsDashLine)

\* a header line and a dash-separator line were found: the header is one
\* line and the spans are the dash runs of the dash-separator line
LayoutFound ==
    /\ header_line # << >>
    /\ \A i \in 1..Len(header_line) : header_line[i] # "\n"
    /\ DashLinesOf(content) # << >>
    /\ positions = DashRuns(ReplaceTabs(Head(DashLinesOf(content))), 0)

\* C1: when a header line and a dash-separator line are found, every row
\* built has exactly as many cells as there are column names: short rows are
\* padded with nulls and no row is longer than the list of column names.
C1_RowWidthIsColumnCount ==
    LayoutFound
        => \A k \in 1..Len(data_rows) : Len(data_rows[k]) = Len(column_names)

\* C2: on the end-to-end example (ID/NAME/AMOUNT, two data lines, a blank
\* line, "(2 rows affected)") the call returns the header tokens as column
\* names and one row per data line holding the values under the dash runs,
\* NULL turned into null.
C2_ExampleTable ==
    (pc = "done" /\ content = ExampleDoc)
        => result = Table(<< <<"I", "D">>, <<"N", "A", "M", "E">>,
                             <<"A", "M", "O", "U", "N", "T">> >>,
                          << << Str(<<"1">>), Str(<<"A", "l", "i", "c", "e">>),
                                Str(<<"1", "0", "0", ".", "0", "0">>) >>,
                             << Str(<<"2">>), None,
                                Str(<<"5", "0", ".", "0", "0">>) >> >>)

\* the text has no header line, or no dash-separator line
NoLayout == ~HeaderSearch(content).found \/ ~DashSearch(content).found

\* C3: when the text has no header line, no dash-separator line, or a dash
\* line without dash runs, the call returns None, never raises, visits no
\* data line and builds no part of a table.
C3_NoLayoutNoResult ==
    (NoLayout \/ (pc = "done" /\ positions = << >>))
        => /\ result \in {Pending, ReturnNone}
           /\ pc = "done" => result = ReturnNone
           /\ column_names = << >>
           /\ lines = << >>
           /\ data_rows = << >>
           /\ built = << >>
           /\ skipped = << >>

\* a header line was found, the dash line was not, and None came back
C3_Witness ==
    /\ pc = "done"
    /\ HeaderSearch(content).found
    /\ ~DashSearch(content).found
    /\ result = ReturnNone

\* the offset in content of the first footer match after the dash line, or -1
FooterOffset ==
    LET m == DashSearch(content)
    IN  IF ~m.found THEN -1
        ELSE LET f == FooterSearch(Slice(content, m.end, Len(content)))
             IN  IF f = -1 THEN -1 ELSE m.end + f

\* C4: once the first footer match after the dash line is reached, nothing at
\* or after its start reaches a row: every line a row was built from is a
\* piece of the text that ends before the footer, and the rows returned are
\* rows built from those lines.
C4_NothingAfterFooter ==
    FooterOffset # -1
        => /\ \A k \in 1..Len(built) :
                /\ built[k].off + Len(built[k].raw) <= FooterOffset
                /\ built[k].raw
                     = Slice(content, built[k].off,
                             built[k].off + Len(built[k].raw))
           /\ \A k \in 1..Len(lines) :
                lines[k].off + Len(lines[k].text) <= FooterOffset
           /\ data_rows = KeptRows(built)

\* a footer was found, a data line ("9 zz") follows it, and rows came back
C4_Witness ==
    /\ ReturnedTable
    /\ FooterOffset # -1
    /\ Contains(Slice(content, FooterOffset, Len(content)),
                <<"\n", "9", " ", "z", "z">>)
    /\ data_rows # << >>

\* C7: the spans are the maximal runs of dashes of the dash-separator line,
\* left to right, with the offsets of each run within that line, also when
\* that line is the last one of the text or follows blank lines.
C7_SpansAreDashRuns ==
    (pc = "done" /\ HeaderSearch(content).found /\ DashLinesOf(content) # << >>)
        => positions = DashRuns(ReplaceTabs(Head(DashLinesOf(content))), 0)

\* C9: the header line is one line of the text: neither it nor a column name
\* holds a line break or text of another line.
C9_HeaderIsOneLine ==
    /\ \A i \in 1..Len(header_line) : header_line[i] # "\n"
    /\ \A k \in 1..Len(column_names) :
          \A i \in 1..Len(column_names[k]) : column_names[k][i] # "\n"

\* C5: every row returned has a cell that is neither null nor the empty
\* string, and no row comes from an empty line, a whitespace-only line or a
\* line containing "Completion time:".
C5_RowsHaveData ==
    /\ \A k \in 1..Len(data_rows) :
          \E j \in 1..Len(data_rows[k]) :
              data_rows[k][j] # None /\ data_rows[k][j] # Str(<< >>)
    /\ \A k \in 1..Len(built) :
          /\ \E i \in 1..Len(built[k].raw) : ~IsSpace(built[k].raw[i])
          /\ ~Contains(built[k].raw, CompletionLit)
    /\ data_rows = KeptRows(built)
    /\ ReturnedTable => result.rows = data_rows

\* a table came back with rows, after the loop passed over a blank line, a
\* "Completion time:" line, and dropped a row without data
C5_Witness ==
    /\ ReturnedTable
    /\ data_rows # << >>
    /\ \E k \in 1..Len(skipped) : Contains(skipped[k], CompletionLit)
    /\ \E k \in 1..Len(skipped) : Strip(skipped[k]) = << >>
    /\ \E k \in 1..Len(built) : ~built[k].kept

\* cell is what the code may return for the trimmed slice t
Normalised(t, cell) ==
    IF t = <<"N", "U", "L", "L">> THEN cell = None ELSE cell = Str(t)

\* the offset at which the slice for cell c (1-based) of a row starts, and
\* the offset at which it ends in a line of length n; cell Len(positions) + 1
\* is the trailing cell
CellStart(c) == IF c = 1 THEN 0 ELSE positions[c - 1][2]

CellEnd(c, n) == IF c <= Len(positions) THEN Min2(positions[c][IF c = 1 THEN 2 ELSE 1], n) ELSE n

\* C6: at every cell position (cell 0, the cells of the later spans, the
\* trailing cell) a slice that is exactly NULL after trimming gives null and
\* any other slice gives its trimmed text; an empty or whitespace-only slice
\* gives the empty string, and null or Null stay text.
C6_NullNormalisation ==
    \A k \in 1..Len(built) :
        LET line == built[k].line
            row  == built[k].row
        IN  \A c \in 1..(Len(positions) + 1) :
                (c = 1 \/ CellStart(c) < Len(line))
                    => /\ c <= Len(row)
                       /\ Normalised(Strip(SubSeq(line, CellStart(c) + 1,
                                                  CellEnd(c, Len(line)))),
                                     row[c])

\* rows were built in which a middle cell and a trailing cell are null
\* because their text is NULL, a cell is the empty string, and a cell keeps
\* the text Null
C6_Witness ==
    /\ pc = "done"
    /\ Len(positions) >= 2
    /\ \E k \in 1..Len(built) :
          /\ Len(built[k].line) > CellStart(Len(positions) + 1)
          /\ Strip(SubSeq(built[k].line, CellStart(2) + 1,
                          CellEnd(2, Len(built[k].line)))) = NullLit
          /\ built[k].row[2] = None
          /\ built[k].row[Len(positions) + 1] = None
    /\ \E k \in 1..Len(built) : \E c \in 1..Len(built[k].row) :
          built[k].row[c] = Str(<< >>)
    /\ \E k \in 1..Len(built) :
          built[k].row[2] = Str(<<"N", "u", "l", "l">>)

\* the width of the dash line: the end of its last run of dashes
DashWidth == positions[Len(positions)][2]

\* C8: a data line shorter than the dash line gives a row with as many cells
\* as there are column names; a cell after the first whose start offset is at
\* or beyond the end of the line is null, and a cell the line reaches keeps
\* its sliced value.
C8_ShortLineRow ==
    \A k \in 1..Len(built) :
        LET line == built[k].line
            row  == built[k].row
        IN  Len(line) < DashWidth
                => /\ Len(row) = Len(column_names)
                   /\ \A c \in 2..Len(positions) :
                         IF CellStart(c) >= Len(line)
                         THEN row[c] = None
                         ELSE Normalised(Strip(Slice(line, CellStart(c),
                                                     positions[c][1])),
                                         row[c])
                   /\ \A c \in (Len(positions) + 1)..Len(row) : row[c] = None

\* a row was built from a line that ends before the second span, and one
\* from a short line that reaches it
C8_Witness ==
    /\ pc = "done"
    /\ \E k \in 1..Len(built) :
          /\ Len(positions) >= 2
          /\ Len(built[k].line) <= CellStart(2)
          /\ built[k].row[2] = None
          /\ built[k].kept
    /\ \E k \in 1..Len(built) :
          /\ Len(positions) >= 2
          /\ Len(built[k].line) < DashWidth
          /\ Len(built[k].line) > CellStart(2)
          /\ built[k].row[2] # None

\* the name of the column of span i (0-based, i > 0) when the placeholder is
\* numbered n
NameOfSpan(i, n) ==
    LET start == positions[i][2]
        end   == positions[i + 1][1]
        text  == Strip(Slice(header_line, start, end))
    IN  IF start < Len(header_line) /\ text # << >>
        THEN text
        ELSE ColumnLit \o IntToStr(n)

\* the column names have been extracted
NamesExtracted == pc \in {"section", "rows", "done"} /\ positions # << >>

\* C10 as stated: the name for span i > 0 is the trimmed header text between
\* the end of span i-1 and the start of span i, and the placeholder ColumnN
\* with N = i+2 when that text is empty or the header line is too short.
C10_PlaceholderIPlus2 ==
    NamesExtracted
        => \A i \in 1..(Len(positions) - 1) :
               column_names[i + 1] = NameOfSpan(i, i + 2)

\* C10 amended: the same, with the placeholder ColumnN numbered N = i+1.
C10_NameBetweenRuns ==
    NamesExtracted
        => \A i \in 1..(Len(positions) - 1) :
               column_names[i + 1] = NameOfSpan(i, i + 1)

\* names were extracted from a one-line header: one column is named by the
\* header text that overhangs the previous run, another by a placeholder
C10_Witness ==
    /\ NamesExtracted
    /\ \A i \in 1..Len(header_line) : header_line[i] # "\n"
    /\ \E i \in 1..(Len(positions) - 1) :
          /\ positions[i][2] < Len(header_line)
          /\ ~IsSpace(header_line[positions[i][2] + 1])
          /\ column_names[i + 1] = NameOfSpan(i, i + 1)
    /\ \E i \in 1..(Len(positions) - 1) :
          column_names[i + 1] = ColumnLit \o IntToStr(i + 1)

====
